---- MODULE Spec2Model ----
(***************************************************************************)
(* k-mer counting (tkyvz/kmer): the FASTQ reader (classes/kmerreader.py),  *)
(* the Bloom-filter counter (classes/bfcounter.py), the disk-partitioned   *)
(* counter (classes/dsk.py), the driver (kmer.py) and the planner of the   *)
(* single-file variant (kmer_single.py).                                   *)
(*                                                                         *)
(* Text is a sequence of one-character strings; a line keeps its trailing  *)
(* "\n" as Python's `for line in f` does.  A (count, token) tuple is the   *)
(* pair <<count, token>>.  Budgets D and M are numbers of bits.  Real      *)
(* arithmetic of the planner (0.7 * M, true division, math.ceil) is done   *)
(* exactly on integers; IEEE rounding of the doubles is not modelled.      *)
(***************************************************************************)
EXTENDS Integers, Sequences, FiniteSets, TLC

VARIABLES
    file,          \* the FASTQ file: a sequence of lines
    k,             \* k-mer size (reader.k)
    n,             \* number of most frequent k-mers asked for
    D,             \* target disk space in bits
    M,             \* target memory in bits
    pc,            \* position of the driver
    total_kmer,    \* KmerReader.total_kmer
    niter,         \* DSK._niter
    np,            \* DSK._np
    efficient,     \* DSK._efficient
    counter,       \* class of the object bound to `counter` in kmer.py
    heap,          \* self._heap
    kmer_counter,  \* the counter dict, as <<key, value>> pairs in insertion order
    bf_added,      \* items added to the Bloom filter of the current pass
    bf_in,         \* items the Bloom filter answers "contained" for
    bf_file,       \* whether the filter's backing file 'kmer_bf' exists
    parts,         \* the partition files that exist: index -> sequence of lines
    iter_no,       \* index of the DSK iteration
    part_no,       \* index of the partition being counted
    pos,           \* number of tokens (or items) consumed by the running loop
    hash,          \* the values mmh3.hash has returned so far: token -> h
    result,        \* list returned by nfrequent
    wlog,          \* history: <<iteration, partition, stream index>> of every write
    offered,       \* history: records offered to the heap
    fpos           \* history: items a filter query answered by a false positive

vars == <<file, k, n, D, M, pc, total_kmer, niter, np, efficient, counter, heap,
          kmer_counter, bf_added, bf_in, bf_file, parts, iter_no, part_no, pos, hash, result,
          wlog, offered, fpos>>

----------------------------------------------------------------------------
(* Bounds of the model *)

MaxSeqLen == 5      \* longest sequence line, without its newline
DskMaxSeqLen == 3   \* longest sequence line of the files run with the small memory budget
MaxK == 2           \* largest k
MaxN == 2           \* largest n
HashBound == 2      \* hash values range over -HashBound .. HashBound

Alphabet == {"A", "C"}
NL == "\n"

----------------------------------------------------------------------------
(* Text helpers: Python str operations used by the code *)

Max(a, b) == IF a >= b THEN a ELSE b
Min(a, b) == IF a <= b THEN a ELSE b

\* ord() of the characters that occur
Ord(c) ==
    CASE c = NL -> 10
      [] c = "!" -> 33
      [] c = "+" -> 43
      [] c = "@" -> 64
      [] c = "A" -> 65
      [] c = "C" -> 67
      [] OTHER -> 120

\* s < t on str (lexicographic by code point)
RECURSIVE StrLess(_, _)
StrLess(s, t) ==
    IF t = <<>> THEN FALSE
    ELSE IF s = <<>> THEN TRUE
    ELSE IF Head(s) # Head(t) THEN Ord(Head(s)) < Ord(Head(t))
    ELSE StrLess(Tail(s), Tail(t))

\* a < b on (count, token) tuples
TupleLess(a, b) ==
    \/ a[1] < b[1]
    \/ a[1] = b[1] /\ StrLess(a[2], b[2])

\* line.startswith(c)
StartsWith(line, c) == Len(line) > 0 /\ line[1] = c

\* str.rstrip(): drop trailing whitespace
RECURSIVE rstrip(_)
rstrip(s) ==
    IF s # <<>> /\ s[Len(s)] = NL THEN rstrip(SubSeq(s, 1, Len(s) - 1)) ELSE s

----------------------------------------------------------------------------
(* KmerReader *)

\* windows counted on the line without its newline and without the last one
KmersOfLineShort(line, kk) ==
    [i \in 1..Max(0, Len(line) - 1 - kk) |-> SubSeq(line, i, Min(Len(line), i + kk - 1))]

\* the windows range(len(line) - k) of one sequence line: line[i:k + i]
KmersOfLine(line, kk) ==
    [i \in 1..Max(0, Len(line) - kk) |-> SubSeq(line, i, Min(Len(line), i + kk - 1))]

\* KmerReader.kmer(): the tokens the generator yields, from line index i on
RECURSIVE KmersFrom(_, _, _)
KmersFrom(f, kk, i) ==
    IF i > Len(f) THEN <<>>
    ELSE IF (i - 1) % 4 = 1 THEN KmersOfLine(f[i], kk) \o KmersFrom(f, kk, i + 1)
    ELSE KmersFrom(f, kk, i + 1)

kmer(f, kk) == KmersFrom(f, kk, 1)

\* what one sequence line adds to count in KmerReader._count
CountOfLine(line, kk) == Len(line) - kk

\* a count loop that breaks at a wrong marker without resetting count
RECURSIVE CountFromKeep(_, _, _, _)
CountFromKeep(f, kk, i, count) ==
    IF i > Len(f) THEN count
    ELSE IF (i - 1) % 4 = 0 /\ ~StartsWith(f[i], "@") THEN count
    ELSE IF (i - 1) % 4 = 2 /\ ~StartsWith(f[i], "+") THEN count
    ELSE IF (i - 1) % 4 = 1
         THEN CountFromKeep(f, kk, i + 1, count + CountOfLine(f[i], kk))
    ELSE CountFromKeep(f, kk, i + 1, count)

KmerReader_count_keep(f, kk) == CountFromKeep(f, kk, 1, 0)

\* KmerReader._count: the loop from line index i on, with the running count
RECURSIVE CountFrom(_, _, _, _)
CountFrom(f, kk, i, count) ==
    IF i > Len(f) THEN count
    ELSE IF (i - 1) % 4 = 0
         THEN IF ~StartsWith(f[i], "@") THEN 0
              ELSE CountFrom(f, kk, i + 1, count)
    ELSE IF (i - 1) % 4 = 1
         THEN CountFrom(f, kk, i + 1, count + CountOfLine(f[i], kk))
    ELSE IF (i - 1) % 4 = 2
         THEN IF ~StartsWith(f[i], "+") THEN 0
              ELSE CountFrom(f, kk, i + 1, count)
    ELSE CountFrom(f, kk, i + 1, count)

KmerReader_count(f, kk) == CountFrom(f, kk, 1, 0)

----------------------------------------------------------------------------
(* Planner: DSK.__init__ and kmer_single.parameters *)

SizeofEmptyStr == 49     \* sys.getsizeof('') of CPython 3 on 64 bits

\* math.ceil(a / d) for d > 0
CeilDiv(a, d) == -((-a) \div d)

b_mem(kk) == (kk + SizeofEmptyStr) * 8
b_disk(kk) == (kk + 1) * 8

\* a universe without the 4^k cap
UniverseUncapped(total, kk) == total

\* max unique kmers: v
Universe(total, kk) == IF 4 ^ kk > total THEN total ELSE 4 ^ kk

\* self._niter = math.ceil(v * b_disk / D)
DSK_niter(total, kk, d) == CeilDiv(Universe(total, kk) * b_disk(kk), d)

\* self._np = math.ceil((v * b) / (0.7 * self._niter * M))
DSK_np(total, kk, d, m) ==
    CeilDiv(10 * Universe(total, kk) * b_mem(kk), 7 * DSK_niter(total, kk, d) * m)

\* self._efficient = 0.7 * M < b * v
DSK_efficient(total, kk, d, m) == 7 * m < 10 * b_mem(kk) * Universe(total, kk)

\* kmer_single.parameters: v, number_of_iterations, number_of_partitions, use_dsk
Single_v(total, kk) == IF 4 ^ kk < total THEN 4 ^ kk ELSE total
Single_iterations(total, kk, d) == CeilDiv(total * b_disk(kk), d)
Single_partitions(total, kk, d, m) ==
    CeilDiv(10 * Single_v(total, kk) * b_mem(kk), 7 * m * Single_iterations(total, kk, d))
Single_use_dsk(total, kk, d, m) == 7 * m < 10 * b_mem(kk) * Single_v(total, kk)

----------------------------------------------------------------------------
(* heapq, on lists indexed from 1 (the children of pos are 2*pos, 2*pos+1) *)

Sentinel == <<0, <<>>>>

\* heapq._siftdown(heap, startpos, pos) with newitem taken out of heap[pos]
RECURSIVE SiftDown(_, _, _, _)
SiftDown(h, startpos, p, newitem) ==
    IF p > startpos /\ TupleLess(newitem, h[p \div 2])
    THEN SiftDown([h EXCEPT ![p] = h[p \div 2]], startpos, p \div 2, newitem)
    ELSE [h EXCEPT ![p] = newitem]

\* heapq._siftup(heap, pos): bubble the smaller child up to a leaf, then sift down
RECURSIVE SiftUp(_, _, _, _)
SiftUp(h, startpos, p, newitem) ==
    IF 2 * p <= Len(h)
    THEN LET left == 2 * p
             right == left + 1
             child == IF right <= Len(h) /\ ~TupleLess(h[left], h[right])
                      THEN right ELSE left
         IN SiftUp([h EXCEPT ![p] = h[child]], startpos, child, newitem)
    ELSE SiftDown(h, startpos, p, newitem)

\* the list after heapq.heappushpop(heap, item)
heappushpop(h, item) ==
    IF h # <<>> /\ TupleLess(h[1], item)
    THEN SiftUp([h EXCEPT ![1] = item], 1, 1, item)
    ELSE h

\* index of a greatest element of a non-empty list
MaxIndex(h) ==
    CHOOSE i \in 1..Len(h) : \A j \in 1..Len(h) : ~TupleLess(h[i], h[j])

RemoveAt(h, i) == SubSeq(h, 1, i - 1) \o SubSeq(h, i + 1, Len(h))

\* heapq.nlargest(m, heap): the m greatest elements, greatest first
RECURSIVE nlargest(_, _)
nlargest(m, h) ==
    IF m <= 0 \/ h = <<>> THEN <<>>
    ELSE LET i == MaxIndex(h) IN <<h[i]>> \o nlargest(m - 1, RemoveAt(h, i))

\* for i in range(m): heap.append((0, ''))
Populate(h, m) == h \o [i \in 1..m |-> Sentinel]

----------------------------------------------------------------------------
(* dict, as a list of <<key, value>> pairs in insertion order *)

Keys(d) == {d[i][1] : i \in 1..Len(d)}
Lookup(d, key) == d[CHOOSE i \in 1..Len(d) : d[i][1] = key][2]

\* value stored on the first repeat of a kmer
FirstRepeatValue == 2

\* a counter update that stores the first repeat as 1
IncrementFromOne(d, key) ==
    IF key \in Keys(d)
    THEN [i \in 1..Len(d) |-> IF d[i][1] = key THEN <<key, d[i][2] + 1>> ELSE d[i]]
    ELSE Append(d, <<key, 1>>)

\* a counter update that stores 2 on every repeat instead of adding 1
IncrementStuck(d, key) ==
    IF key \in Keys(d)
    THEN [i \in 1..Len(d) |-> IF d[i][1] = key THEN <<key, FirstRepeatValue>> ELSE d[i]]
    ELSE Append(d, <<key, FirstRepeatValue>>)

\* a counter update whose default is one too high (defaultdict(lambda: 2),
\* then += 1): the first repeat is stored as 3
IncrementFromThree(d, key) ==
    IF key \in Keys(d)
    THEN [i \in 1..Len(d) |-> IF d[i][1] = key THEN <<key, d[i][2] + 1>> ELSE d[i]]
    ELSE Append(d, <<key, FirstRepeatValue + 1>>)

\* if kmer in counter: counter[kmer] += 1, else: counter[kmer] = 2
Increment(d, key) ==
    IF key \in Keys(d)
    THEN [i \in 1..Len(d) |-> IF d[i][1] = key THEN <<key, d[i][2] + 1>> ELSE d[i]]
    ELSE Append(d, <<key, FirstRepeatValue>>)

----------------------------------------------------------------------------
(* Inputs *)

HashVals == (0 - HashBound)..HashBound

\* sequence lines over the alphabet, 1..MaxSeqLen characters
Seqs == UNION {[1..m -> Alphabet] : m \in 1..MaxSeqLen}

\* one 4-line record: identifier, sequence, separator, quality
Record(idc, sq, sepc) == << <<idc, NL>>, sq \o <<NL>>, <<sepc, NL>>, <<"!", NL>> >>

\* one-record files; "x" stands for a wrong marker character
Files == {Record(idc, sq, sepc) : idc \in {"@", "x"}, sq \in Seqs, sepc \in {"+", "x"}}

\* budgets in bits: with the small memory budget DSK is selected for every
\* file of the model, with the large one BFCounter
DiskBits == {32, 1000}
SmallMemory == {500}
LargeMemory == {10000}
MemoryBits(f) ==
    IF \A i \in 1..Len(f) : (i - 1) % 4 = 1 => Len(f[i]) - 1 <= DskMaxSeqLen
    THEN SmallMemory \cup LargeMemory
    ELSE LargeMemory

Stream == kmer(file, k)

Idle ==
    /\ total_kmer = 0 /\ niter = 0 /\ np = 0 /\ efficient = FALSE
    /\ counter = "none" /\ heap = <<>> /\ kmer_counter = <<>>
    /\ bf_added = {} /\ bf_in = {} /\ bf_file = FALSE /\ parts = <<>>
    /\ iter_no = 0 /\ part_no = 0 /\ pos = 0 /\ hash = <<>> /\ result = <<>>
    /\ wlog = <<>> /\ offered = {} /\ fpos = {}

Init ==
    /\ file \in Files
    /\ k \in 1..MaxK
    /\ \A i \in 1..Len(file) : (i - 1) % 4 = 1 => Len(file[i]) >= k
    /\ n \in 1..MaxN
    /\ D \in DiskBits
    /\ M \in MemoryBits(file)
    /\ pc = "start"
    /\ Idle

----------------------------------------------------------------------------
(* kmer.py: reader = KmerReader(file_name, k) *)

KmerReader_init ==
    /\ pc = "start"
    /\ total_kmer' = KmerReader_count(file, k)
    /\ pc' = IF total_kmer' = 0 THEN "format_error" ELSE "reader"
    /\ UNCHANGED <<file, k, n, D, M, niter, np, efficient, counter, heap,
                   kmer_counter, bf_added, bf_in, bf_file, parts, iter_no, part_no,
                   pos, hash, result, wlog, offered, fpos>>

(* kmer.py: counter = DSK(reader, args) *)
DSK_init ==
    /\ pc = "reader"
    /\ niter' = DSK_niter(total_kmer, k, D)
    /\ np' = DSK_np(total_kmer, k, D, M)
    /\ efficient' = DSK_efficient(total_kmer, k, D, M)
    /\ heap' = <<>>
    /\ counter' = "DSK"
    /\ pc' = "should_use"
    /\ UNCHANGED <<file, k, n, D, M, total_kmer, kmer_counter, bf_added, bf_in,
                   bf_file, parts, iter_no, part_no, pos, hash, result, wlog,
                   offered, fpos>>

\* DSK.should_use
should_use == efficient

(* kmer.py: if not counter.should_use(): counter = BFCounter(reader, args) *)
SelectCounter ==
    /\ pc = "should_use"
    /\ IF ~should_use
       THEN counter' = "BFCounter" /\ heap' = <<>> /\ kmer_counter' = <<>>
       ELSE UNCHANGED <<counter, heap, kmer_counter>>
    /\ pc' = "nfrequent"
    /\ UNCHANGED <<file, k, n, D, M, total_kmer, niter, np, efficient, bf_added,
                   bf_in, bf_file, parts, iter_no, part_no, pos, hash, result,
                   wlog, offered, fpos>>

----------------------------------------------------------------------------
(* The Bloom filter: `x in bf` never misses an added item; an add may set   *)
(* bits that make the filter answer "contained" for other items too.        *)

\* the filters reachable from (added, inside) by bf.add(x); `items` are the
\* items still to be queried
AfterAdd(added, inside, x, items) ==
    {[added |-> added \cup {x}, inside |-> inside \cup {x} \cup extra] :
        extra \in SUBSET (items \ (inside \cup {x}))}

\* the items of a list from index i on
Rest(sq, i) == {sq[j] : j \in i..Len(sq)}

----------------------------------------------------------------------------
(* BFCounter.nfrequent: _count, then _heapify, then heapq.nlargest *)

BF_create ==
    /\ pc = "nfrequent" /\ counter = "BFCounter"
    /\ bf_added' = {} /\ bf_in' = {} /\ bf_file' = TRUE
    /\ pos' = 0
    /\ pc' = "bf_count"
    /\ UNCHANGED <<file, k, n, D, M, total_kmer, niter, np, efficient, counter,
                   heap, kmer_counter, parts, iter_no, part_no, hash, result,
                   wlog, offered, fpos>>

\* one turn of `for kmer in self._reader.kmer()`
BF_count ==
    /\ pc = "bf_count" /\ pos < Len(Stream)
    /\ LET x == Stream[pos + 1] IN
       IF x \notin bf_in
       THEN /\ \E f \in AfterAdd(bf_added, bf_in, x, Rest(Stream, pos + 2)) :
                  bf_added' = f.added /\ bf_in' = f.inside
            /\ UNCHANGED <<kmer_counter, fpos>>
       ELSE /\ kmer_counter' = Increment(kmer_counter, x)
            /\ fpos' = IF x \in bf_added THEN fpos ELSE fpos \cup {x}
            /\ UNCHANGED <<bf_added, bf_in>>
    /\ pos' = pos + 1
    /\ UNCHANGED <<file, k, n, D, M, pc, total_kmer, niter, np, efficient, counter,
                   heap, bf_file, parts, iter_no, part_no, hash, result, wlog,
                   offered>>

\* os.remove('kmer_bf'), then the first loop of _heapify
BF_remove ==
    /\ pc = "bf_count" /\ pos = Len(Stream)
    /\ bf_file' = FALSE
    /\ heap' = Populate(heap, n)
    /\ pos' = 0
    /\ pc' = "bf_heapify"
    /\ UNCHANGED <<file, k, n, D, M, total_kmer, niter, np, efficient, counter,
                   kmer_counter, bf_added, bf_in, parts, iter_no, part_no, hash,
                   result, wlog, offered, fpos>>

\* an offer that pushes without popping (heapq.heappush)
OfferPush(h, rec) ==
    IF rec[1] > h[1][1] THEN SiftDown(Append(h, rec), 1, Len(h) + 1, rec) ELSE h

\* an offer with the comparison turned round
OfferInverted(h, rec) == IF rec[1] < h[1][1] THEN heappushpop(h, rec) ELSE h

\* if count > self._heap[0][0]: heapq.heappushpop(self._heap, (count, kmer))
Offer(h, rec) == IF rec[1] > h[1][1] THEN heappushpop(h, rec) ELSE h

\* one turn of `for kmer, count in self._kmer_counter.items()`
BF_heapify ==
    /\ pc = "bf_heapify" /\ pos < Len(kmer_counter)
    /\ LET rec == <<kmer_counter[pos + 1][2], kmer_counter[pos + 1][1]>> IN
       /\ heap' = Offer(heap, rec)
       /\ offered' = offered \cup {rec}
    /\ pos' = pos + 1
    /\ UNCHANGED <<file, k, n, D, M, pc, total_kmer, niter, np, efficient, counter,
                   kmer_counter, bf_added, bf_in, bf_file, parts, iter_no, part_no,
                   hash, result, wlog, fpos>>

\* return heapq.nlargest(n, self._heap)
BF_return ==
    /\ pc = "bf_heapify" /\ pos = Len(kmer_counter)
    /\ result' = nlargest(n, heap)
    /\ pc' = "done"
    /\ UNCHANGED <<file, k, n, D, M, total_kmer, niter, np, efficient, counter,
                   heap, kmer_counter, bf_added, bf_in, bf_file, parts, iter_no,
                   part_no, pos, hash, wlog, offered, fpos>>

----------------------------------------------------------------------------
(* DSK.nfrequent: _populate, then per iteration _write_files_for_iteration  *)
(* and _read_files_and_count, then heapq.nlargest                           *)

\* a remainder that takes the sign of the dividend, as C's % does
BelongsTruncated(h, ni, it) == (IF h >= 0 THEN h % ni ELSE 0 - ((0 - h) % ni)) = it

\* h % self._niter == iter_no (Python's %: the result has the divisor's sign)
Belongs(h, ni, it) == h % ni = it

\* int((h / self._niter) % self._np): true division, float %, truncation.
\* (h / ni) % npp = (h - ni*npp*floor(h / (ni*npp))) / ni, which is >= 0
PartitionIndex(h, ni, npp) == (h % (ni * npp)) \div ni

DSK_populate ==
    /\ pc = "nfrequent" /\ counter = "DSK"
    /\ heap' = Populate(heap, n)
    /\ iter_no' = 0
    /\ pc' = "dsk_iter"
    /\ UNCHANGED <<file, k, n, D, M, total_kmer, niter, np, efficient, counter,
                   kmer_counter, bf_added, bf_in, bf_file, parts, part_no, pos,
                   hash, result, wlog, offered, fpos>>

\* files = self._create_files()
DSK_create_files ==
    /\ pc = "dsk_iter" /\ iter_no < niter
    /\ parts' = [j \in 0..(np - 1) |-> <<>>]
    /\ pos' = 0
    /\ pc' = "dsk_write"
    /\ UNCHANGED <<file, k, n, D, M, total_kmer, niter, np, efficient, counter,
                   heap, kmer_counter, bf_added, bf_in, bf_file, iter_no, part_no,
                   hash, result, wlog, offered, fpos>>

\* one turn of `for kmer in self._reader.kmer()` of _write_files_for_iteration
DSK_write ==
    /\ pc = "dsk_write" /\ pos < Len(Stream)
    /\ LET x == Stream[pos + 1] IN
       \E h \in HashVals :
         /\ x \in DOMAIN hash => h = hash[x]
         /\ hash' = [t \in DOMAIN hash \cup {x} |-> IF t = x THEN h ELSE hash[t]]
         /\ IF Belongs(h, niter, iter_no)
            THEN LET j == PartitionIndex(h, niter, np) IN
                 IF j \in DOMAIN parts
                 THEN /\ parts' = [parts EXCEPT ![j] = Append(@, x \o <<NL>>)]
                      /\ wlog' = Append(wlog, <<iter_no, j, pos + 1>>)
                      /\ pc' = pc
                 ELSE /\ pc' = "IndexError"
                      /\ UNCHANGED <<parts, wlog>>
            ELSE UNCHANGED <<parts, wlog, pc>>
    /\ pos' = pos + 1
    /\ UNCHANGED <<file, k, n, D, M, total_kmer, niter, np, efficient, counter,
                   heap, kmer_counter, bf_added, bf_in, bf_file, iter_no, part_no,
                   result, offered, fpos>>

\* for f in files: f.close()
DSK_close_files ==
    /\ pc = "dsk_write" /\ pos = Len(Stream)
    /\ part_no' = 0
    /\ pc' = "dsk_read"
    /\ UNCHANGED <<file, k, n, D, M, total_kmer, niter, np, efficient, counter,
                   heap, kmer_counter, bf_added, bf_in, bf_file, parts, iter_no,
                   pos, hash, result, wlog, offered, fpos>>

\* bf = BloomFilter(...); kmer_counter = dict(); open(str(j), 'r')
DSK_bf_create ==
    /\ pc = "dsk_read" /\ part_no < np
    /\ bf_added' = {} /\ bf_in' = {} /\ bf_file' = TRUE
    /\ kmer_counter' = <<>>
    /\ pos' = 0
    /\ pc' = "dsk_count"
    /\ UNCHANGED <<file, k, n, D, M, total_kmer, niter, np, efficient, counter,
                   heap, parts, iter_no, part_no, hash, result, wlog, offered,
                   fpos>>

\* one turn of `for kmer in f` over the partition file
DSK_count ==
    /\ pc = "dsk_count" /\ pos < Len(parts[part_no])
    /\ LET x == parts[part_no][pos + 1] IN
       IF x \notin bf_in
       THEN /\ \E f \in AfterAdd(bf_added, bf_in, x, Rest(parts[part_no], pos + 2)) :
                  bf_added' = f.added /\ bf_in' = f.inside
            /\ UNCHANGED <<kmer_counter, fpos>>
       ELSE /\ kmer_counter' = Increment(kmer_counter, x)
            /\ fpos' = IF x \in bf_added THEN fpos ELSE fpos \cup {x}
            /\ UNCHANGED <<bf_added, bf_in>>
    /\ pos' = pos + 1
    /\ UNCHANGED <<file, k, n, D, M, pc, total_kmer, niter, np, efficient, counter,
                   heap, bf_file, parts, iter_no, part_no, hash, result, wlog,
                   offered>>

\* the partition file is exhausted: on to `for kmer, count in kmer_counter.items()`
DSK_counted ==
    /\ pc = "dsk_count" /\ pos = Len(parts[part_no])
    /\ pos' = 0
    /\ pc' = "dsk_offer"
    /\ UNCHANGED <<file, k, n, D, M, total_kmer, niter, np, efficient, counter,
                   heap, kmer_counter, bf_added, bf_in, bf_file, parts, iter_no,
                   part_no, hash, result, wlog, offered, fpos>>

\* one turn of `for kmer, count in kmer_counter.items()`; the record offered
\* is (count, kmer.rstrip())
DSK_offer ==
    /\ pc = "dsk_offer" /\ pos < Len(kmer_counter)
    /\ LET key == kmer_counter[pos + 1][1]
           count == kmer_counter[pos + 1][2]
       IN /\ heap' = Offer(heap, <<count, rstrip(key)>>)
          /\ offered' = offered \cup {<<count, rstrip(key)>>}
    /\ pos' = pos + 1
    /\ UNCHANGED <<file, k, n, D, M, pc, total_kmer, niter, np, efficient, counter,
                   kmer_counter, bf_added, bf_in, bf_file, parts, iter_no, part_no,
                   hash, result, wlog, fpos>>

\* the end of a partition pass without os.remove(str(j))
DSK_remove_leak ==
    /\ pc = "dsk_offer" /\ pos = Len(kmer_counter)
    /\ bf_file' = FALSE
    /\ part_no' = part_no + 1
    /\ pc' = "dsk_read"
    /\ UNCHANGED <<file, k, n, D, M, total_kmer, niter, np, efficient, counter,
                   heap, kmer_counter, bf_added, bf_in, parts, iter_no, pos, hash,
                   result, wlog, offered, fpos>>

\* os.remove(str(j)); os.remove('kmer_bf')
DSK_remove ==
    /\ pc = "dsk_offer" /\ pos = Len(kmer_counter)
    /\ parts' = [j \in DOMAIN parts \ {part_no} |-> parts[j]]
    /\ bf_file' = FALSE
    /\ part_no' = part_no + 1
    /\ pc' = "dsk_read"
    /\ UNCHANGED <<file, k, n, D, M, total_kmer, niter, np, efficient, counter,
                   heap, kmer_counter, bf_added, bf_in, iter_no, pos, hash, result,
                   wlog, offered, fpos>>

\* the partitions of the iteration are counted: next turn of range(self._niter)
DSK_next_iter ==
    /\ pc = "dsk_read" /\ part_no = np
    /\ iter_no' = iter_no + 1
    /\ pc' = "dsk_iter"
    /\ UNCHANGED <<file, k, n, D, M, total_kmer, niter, np, efficient, counter,
                   heap, kmer_counter, bf_added, bf_in, bf_file, parts, part_no,
                   pos, hash, result, wlog, offered, fpos>>

\* return heapq.nlargest(n, self._heap)
DSK_return ==
    /\ pc = "dsk_iter" /\ iter_no = niter
    /\ result' = nlargest(n, heap)
    /\ pc' = "done"
    /\ UNCHANGED <<file, k, n, D, M, total_kmer, niter, np, efficient, counter,
                   heap, kmer_counter, bf_added, bf_in, bf_file, parts, iter_no,
                   part_no, pos, hash, wlog, offered, fpos>>

----------------------------------------------------------------------------

Next ==
    \/ KmerReader_init
    \/ DSK_init
    \/ SelectCounter
    \/ BF_create
    \/ BF_count
    \/ BF_remove
    \/ BF_heapify
    \/ BF_return
    \/ DSK_populate
    \/ DSK_create_files
    \/ DSK_write
    \/ DSK_close_files
    \/ DSK_bf_create
    \/ DSK_count
    \/ DSK_counted
    \/ DSK_offer
    \/ DSK_remove
    \/ DSK_next_iter
    \/ DSK_return

Spec == Init /\ [][Next]_vars

----------------------------------------------------------------------------
(* Properties *)

Range(sq) == {sq[i] : i \in 1..Len(sq)}

\* number of occurrences of x in a list
Occ(x, sq) == Cardinality({i \in 1..Len(sq) : sq[i] = x})

\* the lines the log says were appended to partition file j in iteration it
Logged(it, j) ==
    LET idx == SelectSeq(wlog, LAMBDA w : w[1] = it /\ w[2] = j)
    IN [i \in 1..Len(idx) |-> Stream[idx[i][3]] \o <<NL>>]

\* C1: partition completeness of DSK.  Every write went to the iteration
\* h mod iterations and to the partition floor(h / iterations) mod partitions,
\* which is one of 0..partitions-1; no index ever is out of range; no token
\* occurrence is written twice; the partition files of the running iteration
\* hold exactly the lines logged for them; and when nfrequent has returned,
\* every occurrence of the stream has been written once.
C1_PartitionCompleteness ==
    /\ pc # "IndexError"
    /\ \A i \in 1..Len(wlog) :
          LET h == hash[Stream[wlog[i][3]]] IN
          /\ wlog[i][1] = h % niter
          /\ wlog[i][2] = (h \div niter) % np
          /\ wlog[i][1] \in 0..(niter - 1)
          /\ wlog[i][2] \in 0..(np - 1)
    /\ \A i, j \in 1..Len(wlog) : i # j => wlog[i][3] # wlog[j][3]
    /\ pc = "dsk_write" => \A j \in DOMAIN parts : parts[j] = Logged(iter_no, j)
    /\ (pc = "done" /\ counter = "DSK") =>
          {wlog[i][3] : i \in 1..Len(wlog)} = 1..Len(Stream)

\* a finished DSK run with several iterations and partitions, a negative hash
\* value, a token that occurs twice and writes in two different iterations
C1_Witness ==
    /\ pc = "done" /\ counter = "DSK" /\ niter >= 2 /\ np >= 2
    /\ \E x \in DOMAIN hash : hash[x] < 0 /\ Occ(x, Stream) >= 2
    /\ \E i, j \in 1..Len(wlog) : wlog[i][1] # wlog[j][1]

\* the exact (occurrence count, token) table of the stream
TrueTable == {<<Occ(x, Stream), x>> : x \in Range(Stream)}
Repeats == {e \in TrueTable : e[1] >= 2}
Genuine == Range(result) \ {Sentinel}

BFDoneExact == pc = "done" /\ counter = "BFCounter" /\ fpos = {}

\* C2 as stated: without false positives the records BFCounter.nfrequent
\* returns are exactly the n highest-count entries of the true table
C2_Original ==
    BFDoneExact =>
      /\ Len(result) = Min(n, Cardinality(TrueTable))
      /\ Range(result) \subseteq TrueTable
      /\ Cardinality(Range(result)) = Len(result)
      /\ \A e \in TrueTable \ Range(result) :
            \A i \in 1..Len(result) : e[1] <= result[i][1]

\* C2 amended: without false positives the counter map holds exactly the
\* tokens that occur at least twice, each with its exact count; the records
\* returned other than (0, '') are the min(n, r) highest-count ones of these
\* r tokens, each once and with its exact count, and the other n - min(n, r)
\* positions hold (0, ''); a token that occurs once is never returned.
C2_ExactRepeats ==
    BFDoneExact =>
      /\ {<<kmer_counter[i][2], kmer_counter[i][1]>> : i \in 1..Len(kmer_counter)}
            = Repeats
      /\ Len(result) = n
      /\ Genuine \subseteq Repeats
      /\ Cardinality(Genuine) = Min(n, Cardinality(Repeats))
      /\ Cardinality({i \in 1..Len(result) : result[i] # Sentinel})
            = Cardinality(Genuine)
      /\ \A e \in Repeats \ Genuine : \A r \in Genuine : e[1] <= r[1]

\* more repeated tokens than n, with different counts, and no false positive
C2_Witness ==
    /\ BFDoneExact
    /\ Cardinality(Repeats) > n
    /\ \E e \in Repeats \ Genuine : \E r \in Genuine : e[1] < r[1]

\* the items of the counting pass that has just ended
Pass == IF pc = "dsk_offer" THEN parts[part_no] ELSE Stream
PassEnded ==
    \/ pc \in {"bf_heapify", "dsk_offer"}
    \/ pc = "done" /\ counter = "BFCounter"

\* C3: after a counting pass (BFCounter._count, or one partition of
\* DSK._read_files_and_count) every item that occurs c >= 2 times in the pass
\* has a counter entry of at least c; an entry of an item that occurs once
\* exists only if a filter query on it was a false positive.
C3_NoUndercount ==
    PassEnded =>
      /\ \A x \in Range(Pass) :
            Occ(x, Pass) >= 2 =>
              x \in Keys(kmer_counter) /\ Lookup(kmer_counter, x) >= Occ(x, Pass)
      /\ \A x \in Keys(kmer_counter) : Occ(x, Pass) < 2 => x \in fpos

\* a pass that ended with a real repeat and with a false positive on an item
\* that occurs once
C3_Witness ==
    /\ PassEnded
    /\ \E x \in Keys(kmer_counter) : Occ(x, Pass) >= 2
    /\ \E y \in Keys(kmer_counter) : Occ(y, Pass) = 1 /\ y \in fpos

\* C4 as stated: nfrequent never returns the sentinel (0, ''); with fewer
\* than n records offered the list is shorter than n
C4_NoSentinelReported ==
    pc = "done" =>
      /\ \A i \in 1..Len(result) : result[i] # Sentinel
      /\ Cardinality(offered) < n => Len(result) < n

HeapInitialised ==
    pc \in {"bf_heapify", "dsk_iter", "dsk_write", "dsk_read", "dsk_count",
            "dsk_offer", "done"}

\* C5: once the heap has been populated for a request of n it holds exactly
\* n records, after the population and after every offer
C5_BoundedAccumulator == HeapInitialised => Len(heap) = n

\* a DSK run in its second partition or later, after an offer that was kept
\* and an offer that was discarded or popped
C5_Witness ==
    /\ pc = "dsk_offer" /\ part_no >= 1
    /\ \E o \in offered : o \in Range(heap)
    /\ \E o \in offered : o \notin Range(heap)

\* C6: the list returned has at most n records, is sorted by count in
\* non-increasing order, misses no offered record whose count is strictly
\* greater than the count of a returned record, and its records other than
\* (0, '') are offered records, min(n, number offered) of them
C6_TopK ==
    pc = "done" =>
      /\ Len(result) <= n
      /\ \A i \in 1..(Len(result) - 1) : result[i][1] >= result[i + 1][1]
      /\ \A o \in offered :
            \A i \in 1..Len(result) : o[1] > result[i][1] => o \in Range(result)
      /\ Genuine \subseteq offered
      /\ Cardinality(Genuine) = Min(n, Cardinality(offered))

\* more records offered than n, and an offered record left out whose count
\* is smaller than every returned count
C6_Witness ==
    /\ pc = "done" /\ Cardinality(offered) > n
    /\ \E o \in offered : o \notin Range(result) /\ o[1] < result[n][1]

ScenarioA == Record("@", <<"A", "A", "A", "A", "A">>, "+")
AA == <<"A", "A">>

ScenarioADone ==
    /\ file = ScenarioA /\ k = 2 /\ n = 1
    /\ pc = "done" /\ counter = "BFCounter" /\ fpos = {}

\* C9 as stated: for the record with sequence line AAAAA, k = 2, n = 1 and
\* no false positive, the stream is "AA" three times and the result is (3, "AA")
C9_Original ==
    ScenarioADone => Stream = <<AA, AA, AA>> /\ result = << <<3, AA>> >>

\* C9 amended: for the record with sequence line AAAAA, k = 2, n = 1 and no
\* false positive, the stream is "AA" four times (len(line) counts the
\* newline, so the line yields its 5 - 2 + 1 windows) and the result is the
\* one record (4, "AA")
C9_ScenarioA ==
    ScenarioADone => Stream = <<AA, AA, AA, AA>> /\ result = << <<4, AA>> >>

C9_Witness == ScenarioADone

----------------------------------------------------------------------------
(* The reader alone: KmerReader(file, k), then one pass over reader.kmer()  *)

ReaderMaxSeqLen == 2     \* longest sequence line of the reader's files

ReaderSeqs == UNION {[1..m -> Alphabet] : m \in 0..ReaderMaxSeqLen}
ReaderRecords ==
    {Record(idc, sq, sepc) : idc \in {"@", "x"}, sq \in ReaderSeqs, sepc \in {"+", "x"}}

\* files of one or two records
ReaderFiles == ReaderRecords \cup {r1 \o r2 : r1 \in ReaderRecords, r2 \in ReaderRecords}

InitReader ==
    /\ file \in ReaderFiles
    /\ k \in 1..MaxK
    /\ n = 1 /\ D \in DiskBits /\ M \in LargeMemory
    /\ pc = "start"
    /\ Idle

\* the generator reader.kmer() yields its next token
Kmer_yield ==
    /\ pc = "reader" /\ pos < Len(Stream)
    /\ pos' = pos + 1
    /\ UNCHANGED <<file, k, n, D, M, pc, total_kmer, niter, np, efficient, counter,
                   heap, kmer_counter, bf_added, bf_in, bf_file, parts, iter_no,
                   part_no, hash, result, wlog, offered, fpos>>

\* the generator is exhausted
Kmer_return ==
    /\ pc = "reader" /\ pos = Len(Stream)
    /\ pc' = "exhausted"
    /\ UNCHANGED <<file, k, n, D, M, total_kmer, niter, np, efficient, counter,
                   heap, kmer_counter, bf_added, bf_in, bf_file, parts, iter_no,
                   part_no, pos, hash, result, wlog, offered, fpos>>

NextReader == KmerReader_init \/ Kmer_yield \/ Kmer_return

SpecReader == InitReader /\ [][NextReader]_vars

SeqLines == {i \in 1..Len(file) : (i - 1) % 4 = 1}

RECURSIVE SumClamped(_)
SumClamped(S) ==
    IF S = {} THEN 0
    ELSE LET i == CHOOSE i \in S : TRUE
         IN Max(0, Len(file[i]) - k) + SumClamped(S \ {i})

\* a line 0 mod 4 that does not start with '@' or a line 2 mod 4 that does
\* not start with '+'
WrongMarker(i) ==
    \/ (i - 1) % 4 = 0 /\ ~StartsWith(file[i], "@")
    \/ (i - 1) % 4 = 2 /\ ~StartsWith(file[i], "+")
MarkersValid == \A i \in 1..Len(file) : ~WrongMarker(i)

\* C8 as stated: for a file with valid markers total_kmer is the sum over the
\* sequence lines of max(0, len(line) - k), which is the number of tokens
\* one pass of kmer() yields
C8_TokenCountConsistency ==
    (MarkersValid /\ pc = "exhausted") =>
      total_kmer = SumClamped(SeqLines) /\ total_kmer = pos

\* C10: a wrong marker in any record makes the total 0 and the construction
\* fail: no reader exists, nothing is yielded or counted
C10_FormatValidation ==
    (~MarkersValid /\ pc # "start") =>
      total_kmer = 0 /\ pc = "format_error" /\ pos = 0

\* a failed construction whose first record is valid and has tokens and
\* whose second record has the wrong marker
C10_Witness ==
    /\ pc = "format_error" /\ Len(file) = 8
    /\ \A i \in 1..4 : ~WrongMarker(i)
    /\ Len(file[2]) - k > 0
    /\ \E i \in 5..8 : WrongMarker(i)

----------------------------------------------------------------------------
(* The planner on its boundaries: files of one record whose sequence line   *)
(* is a run of "A", with memory budgets on both sides of 0.7 * M = b * v    *)

MaxPlanLen == 8      \* longest sequence line of the planner's files

PlannerFiles == {Record("@", [i \in 1..m |-> "A"], "+") : m \in 1..MaxPlanLen}

\* 7 * 2285 < 10 * b_mem(1) * 4 <= 7 * 2286 and 7 * 4080 = 10 * b_mem(2) * 7
PlannerMemory == {500, 2285, 2286, 4079, 4080, 4081, 10000}

InitPlanner ==
    /\ file \in PlannerFiles
    /\ k \in 1..MaxK
    /\ \A i \in 1..Len(file) : (i - 1) % 4 = 1 => Len(file[i]) >= k
    /\ n = 1
    /\ D \in DiskBits
    /\ M \in PlannerMemory
    /\ pc = "start"
    /\ Idle

SpecPlanner == InitPlanner /\ [][Next]_vars

Decided == pc \notin {"start", "format_error", "reader"}
Selected == Decided /\ pc # "should_use"

----------------------------------------------------------------------------
(* A counting pass that fails: an operation of the loop of BFCounter._count *)
(* or of DSK._read_files_and_count (the read of the next line, a filter     *)
(* query or add, a counter update) raises.  Neither method has a try, and   *)
(* kmer.py has none around nfrequent: the exception leaves the method at    *)
(* once and ends the run.                                                   *)

\* an operation of `for kmer in self._reader.kmer()` raises
BF_raise ==
    /\ pc = "bf_count"
    /\ pc' = "raised"
    /\ UNCHANGED <<file, k, n, D, M, total_kmer, niter, np, efficient, counter,
                   heap, kmer_counter, bf_added, bf_in, bf_file, parts, iter_no,
                   part_no, pos, hash, result, wlog, offered, fpos>>

\* an operation of `for kmer in f` raises
DSK_raise ==
    /\ pc = "dsk_count"
    /\ pc' = "raised"
    /\ UNCHANGED <<file, k, n, D, M, total_kmer, niter, np, efficient, counter,
                   heap, kmer_counter, bf_added, bf_in, bf_file, parts, iter_no,
                   part_no, pos, hash, result, wlog, offered, fpos>>

NextFail == Next \/ BF_raise \/ DSK_raise

\* the files run with either memory budget
InitFail ==
    /\ Init
    /\ \A i \in 1..Len(file) : (i - 1) % 4 = 1 => Len(file[i]) - 1 <= DskMaxSeqLen

SpecFail == InitFail /\ [][NextFail]_vars

\* a counting pass has exited: by an exception, or normally
PassExited ==
    \/ pc \in {"raised", "bf_heapify"}
    \/ pc = "dsk_read" /\ part_no > 0

\* C11 as stated: once a counting pass has exited, normally or by an
\* exception, the filter file 'kmer_bf' does not exist; after a DSK pass that
\* exited normally the partition file it counted does not exist, and after a
\* pass that failed no partition file exists
C11_ScopedRelease ==
    PassExited =>
      /\ ~bf_file
      /\ pc = "dsk_read" => (part_no - 1) \notin DOMAIN parts
      /\ pc = "raised" => DOMAIN parts = {}

----------------------------------------------------------------------------
(* The iteration count of the two planners *)

\* C12 as stated: both planners compute ceil(universe * b_disk / D)
\* iterations, with universe = min(4^k, total_kmer) and b_disk = 8 * (k + 1),
\* and so the same number
C12_IterationCount ==
    Decided =>
      /\ niter = CeilDiv(Min(4 ^ k, total_kmer) * 8 * (k + 1), D)
      /\ Single_iterations(total_kmer, k, D) = niter

----------------------------------------------------------------------------
(* The capacity of the filter of a partition pass *)

\* c <= self._capacity, where self._capacity = v / (self._niter * self._np)
\* (true division)
DSK_within_capacity(c, total, kk, ni, npp) == c * ni * npp <= Universe(total, kk)

\* C13 as stated: in each partition pass of DSK the number of distinct tokens
\* inserted into the filter of the pass is at most the capacity the filter
\* was created with, universe / (iterations * partitions)
C13_CapacityCoversPass ==
    pc \in {"dsk_count", "dsk_offer"} =>
      DSK_within_capacity(Cardinality(bf_added), total_kmer, k, niter, np)

----------------------------------------------------------------------------
(* Lifecycle of the partition files and of the filter file in a DSK run *)

\* the runs with the small memory budget: DSK(reader, args) is kept
InitDsk == Init /\ M \in SmallMemory

NextDsk ==
    \/ KmerReader_init
    \/ DSK_init
    \/ SelectCounter
    \/ DSK_populate
    \/ DSK_create_files
    \/ DSK_write
    \/ DSK_close_files
    \/ DSK_bf_create
    \/ DSK_count
    \/ DSK_counted
    \/ DSK_offer
    \/ DSK_remove
    \/ DSK_next_iter
    \/ DSK_return

SpecDsk == InitDsk /\ [][NextDsk]_vars

DskRunning == pc \in {"dsk_iter", "dsk_write", "dsk_read", "dsk_count", "dsk_offer"}

\* C14: in a DSK run that does not fail the partition files that exist are
\* files of the current iteration (every line of file j is a token whose hash
\* selects this iteration and partition j), at most np of them: all np during the shard phase, the
\* ones not yet counted during the count phase; the filter file exists only
\* during a partition pass, so a new filter is created only when none exists;
\* an iteration starts only when the np partitions of the one before have
\* been counted and no partition file is left; and when nfrequent has
\* returned no partition file and no filter file remains
C14_Lifecycle ==
    /\ DOMAIN parts \subseteq 0..(np - 1)
    /\ Cardinality(DOMAIN parts) <= np
    /\ DskRunning =>
          \A j \in DOMAIN parts : \A i \in 1..Len(parts[j]) :
             LET h == hash[rstrip(parts[j][i])]
             IN Belongs(h, niter, iter_no) /\ PartitionIndex(h, niter, np) = j
    /\ pc = "dsk_write" => DOMAIN parts = 0..(np - 1)
    /\ pc \in {"dsk_read", "dsk_count", "dsk_offer"} => DOMAIN parts = part_no..(np - 1)
    /\ bf_file => pc \in {"bf_count", "dsk_count", "dsk_offer"}
    /\ pc \in {"nfrequent", "dsk_read"} => ~bf_file
    /\ pc = "dsk_iter" =>
          /\ DOMAIN parts = {}
          /\ iter_no > 0 => part_no = np
    /\ pc = "done" => DOMAIN parts = {} /\ ~bf_file

\* the count phase of a later iteration, between two partition passes, with
\* a counted file deleted and a file with lines still to count
C14_Witness ==
    /\ pc = "dsk_read" /\ iter_no >= 1 /\ part_no >= 1
    /\ \E j \in DOMAIN parts : parts[j] # <<>>

----------------------------------------------------------------------------
(* The ranked list as a function of the order of the offers *)

\* the heap after the records of a list have been offered in the list's order
RECURSIVE OfferAll(_, _)
OfferAll(h, recs) ==
    IF recs = <<>> THEN h ELSE OfferAll(Offer(h, Head(recs)), Tail(recs))

\* populate for m, offer the records, return heapq.nlargest(m, heap)
Finalize(recs, m) == nlargest(m, OfferAll(Populate(<<>>, m), recs))

\* the lists that hold every element of a finite set once
Orders(S) ==
    {p \in [1..Cardinality(S) -> S] : \A i, j \in 1..Cardinality(S) : i # j => p[i] # p[j]}

\* C15 as stated: the list nfrequent returns is the list that offering the
\* same records in any other order and finalizing yields
C15_OrderIndependent ==
    pc = "done" => \A p \in Orders(offered) : Finalize(p, n) = result

----------------------------------------------------------------------------
(* A second call of nfrequent(n) on the same counter object.  The object    *)
(* keeps self._heap and, in BFCounter, self._kmer_counter between the       *)
(* calls; `result` holds the list of the call before until the next return. *)

MaxCalls == 2      \* number of calls of nfrequent on one object

\* the caller calls counter.nfrequent(n) again
Again ==
    /\ pc = "done" /\ Len(heap) < MaxCalls * n
    /\ pc' = "nfrequent"
    /\ UNCHANGED <<file, k, n, D, M, total_kmer, niter, np, efficient, counter,
                   heap, kmer_counter, bf_added, bf_in, bf_file, parts, iter_no,
                   part_no, pos, hash, result, wlog, offered, fpos>>

NextAgain == Next \/ Again

SpecAgain == Init /\ [][NextAgain]_vars

\* no token other than '' is in two records of the list
NoTokenTwice(lst) ==
    \A i, j \in 1..Len(lst) : (i # j /\ lst[i][2] = lst[j][2]) => lst[i] = Sentinel

\* C16 as stated: a call of nfrequent(n) that returns after an earlier call
\* on the same object returns the list the earlier call returned, with no
\* token twice, and leaves n records in the heap
C16_Idempotent ==
    [][ (pc # "done" /\ pc' = "done" /\ result # <<>>) =>
           /\ result' = result
           /\ NoTokenTwice(result')
           /\ Len(heap') = n ]_vars

----------------------------------------------------------------------------
(* The size of the overcount *)

\* 1 if a query of the filter on x was answered by a false positive, else 0
Extra(x) == IF x \in fpos THEN 1 ELSE 0

\* C17: after a counting pass every entry of the counter map belongs to an
\* item that occurs in the pass, and its value is the number c of the item's
\* occurrences, or c + 1 exactly when the filter answered "contained" for the
\* item before the item was added (its first occurrence was a false
\* positive); and every record offered to the heap carries the number of
\* occurrences of its token in the whole stream, or that number plus 1
C17_BoundedOvercount ==
    /\ PassEnded =>
         \A x \in Keys(kmer_counter) :
            /\ Occ(x, Pass) >= 1
            /\ Lookup(kmer_counter, x) = Occ(x, Pass) + Extra(x)
    /\ \A o \in offered :
          LET c == Occ(o[2], Stream) IN
          /\ c >= 1
          /\ o[1] - c \in {0, 1}
          /\ (o[1] = c + 1) = (o[2] \in fpos \/ o[2] \o <<NL>> \in fpos)

\* a pass that ended with an entry of c + 1 for an item whose c >= 2
\* occurrences all met a false positive, and an exact entry for another item
C17_Witness ==
    /\ PassEnded
    /\ \E x \in Keys(kmer_counter) :
          x \in fpos /\ Occ(x, Pass) >= 2 /\ Lookup(kmer_counter, x) = Occ(x, Pass) + 1
    /\ \E y \in Keys(kmer_counter) :
          y \notin fpos /\ Lookup(kmer_counter, y) = Occ(y, Pass)

====
